---- MODULE Spec2Model ----
(***************************************************************************)
(* A model of the dental clinic program (src/Dental_Clinic.py): the        *)
(* treatment catalog and its two edit windows, the appointment book with   *)
(* its list box, edit dialog and JSON store, and the bill log with its     *)
(* search.  Every window is a Tk event handler: handlers run one at a      *)
(* time, to completion, in any order the user chooses.                     *)
(***************************************************************************)
EXTENDS Integers, Sequences, FiniteSets, TLC

VARIABLES
    treatments,            \* DentalClinic._treatments: id -> (name, price)
    treatment_keys,        \* DentalClinicGUI.treatment_keys (billing list box)
    appt_treatment_keys,   \* DentalClinicGUI.appt_treatment_keys
    treat_win,             \* the Edit Treatments window and the dict it captured
    price_win,             \* the Edit Prices window and the text in its box
    appointments,          \* DentalClinicGUI.appointments
    appointments_listbox,  \* the rows of the Upcoming Appointments list box
    selected,              \* its selected row (curselection), 0 when none
    edit_win,              \* the Edit Appointment window and what it captured
    store,                 \* the file appointments.json
    today,                 \* datetime.date.today()
    bills_log,             \* the file patient_bills.txt
    bill_files,            \* the individual bill files, by path
    now,                   \* datetime.datetime.now(), in seconds
    search_results,        \* the last search: its query, its matches, the results box
    generated,             \* history: the bills generate_bill has saved
    messagebox,            \* the message box the last handler showed
    console                \* the lines the last handler printed

catVars  == <<treatments, treatment_keys, appt_treatment_keys, treat_win, price_win>>
apptVars == <<appointments, appointments_listbox, selected, edit_win, store, today>>
billVars == <<bills_log, bill_files, now, search_results, generated>>
vars     == <<catVars, apptVars, billVars, messagebox, console>>

-----------------------------------------------------------------------------
(* Bounds of the model.                                                    *)

MaxLines == 2      \* lines typed into a catalog edit window

-----------------------------------------------------------------------------
(* Sequences.                                                              *)

RECURSIVE SetToSeq(_)
\* The elements of a finite set of integers, ascending.
SetToSeq(S) ==
    IF S = {} THEN <<>>
    ELSE LET m == CHOOSE x \in S : \A y \in S : x <= y
         IN  <<m>> \o SetToSeq(S \ {m})

SeqsUpTo(S, n) == UNION {[1..k -> S] : k \in 1..n}

Range(s) == {s[i] : i \in DOMAIN s}

-----------------------------------------------------------------------------
(* Prices.  A Python price is an int (the default 1000 of save_treatments) *)
(* or a float (float(price_str) in save_prices, float(cost) in to_dict);   *)
(* the two print differently.  A number is v + c/100, c in 0..99; nan is   *)
(* the float that is not a number.                                         *)

DefaultPrice == 1000

IntPrice(n)   == [v |-> n, c |-> 0, fl |-> FALSE, nan |-> FALSE]
FloatPrice(n) == [v |-> n, c |-> 0, fl |-> TRUE,  nan |-> FALSE]

\* The float of h hundredths.
Hundredths(h) == [v |-> h \div 100, c |-> h % 100, fl |-> TRUE, nan |-> FALSE]

\* float("nan")
NaN == [v |-> 0, c |-> 0, fl |-> TRUE, nan |-> TRUE]

\* What float(s) gives: the float f, and its whole part v for the
\* comparisons the handlers make with 0 and 100 (false for nan on both
\* sides, as in Python).
Parsed(f) == [ok |-> TRUE, v |-> f.v, f |-> f]

\* float(price_str): the texts a user can type, and the texts str(price) gives.
ParseFloat(s) ==
    CASE s = "7000"   -> Parsed(FloatPrice(7000))
      [] s = "7000.0" -> Parsed(FloatPrice(7000))
      [] s = "500"    -> Parsed(FloatPrice(500))
      [] s = "500.0"  -> Parsed(FloatPrice(500))
      [] s = "1000"   -> Parsed(FloatPrice(1000))
      [] s = "1000.0" -> Parsed(FloatPrice(1000))
      [] s = "-5"     -> Parsed(FloatPrice(-5))
      [] s = "10"     -> Parsed(FloatPrice(10))
      [] s = "150"    -> Parsed(FloatPrice(150))
      [] s = "0"      -> Parsed(FloatPrice(0))
      [] s = "100"    -> Parsed(FloatPrice(100))
      [] s = "1"      -> Parsed(FloatPrice(1))
      [] s = "0.5"    -> Parsed(Hundredths(50))
      [] s = "nan"    -> Parsed(NaN)
      [] OTHER        -> [ok |-> FALSE, v |-> 0, f |-> FloatPrice(0)]

\* str(price) inside an f-string: an int prints bare, a float with ".0".
FormatPrice(p) ==
    CASE p.nan                 -> "nan"
      [] p.c = 50 /\ p.v = 0   -> "0.5"
      [] p.c = 99 /\ p.v = 0   -> "0.99"
      [] p.c # 0               -> "?"
      [] p.v = 7000 -> IF p.fl THEN "7000.0" ELSE "7000"
      [] p.v = 500  -> IF p.fl THEN "500.0"  ELSE "500"
      [] p.v = 1000 -> IF p.fl THEN "1000.0" ELSE "1000"
      [] p.v = 900  -> IF p.fl THEN "900.0"  ELSE "900"
      [] p.v = 10   -> IF p.fl THEN "10.0"   ELSE "10"
      [] p.v = 1    -> IF p.fl THEN "1.0"    ELSE "1"
      [] p.v = 0    -> IF p.fl THEN "0.0"    ELSE "0"
      [] p.v = 100  -> IF p.fl THEN "100.0"  ELSE "100"
      [] OTHER      -> "?"

-----------------------------------------------------------------------------
(* The catalog and its list boxes.                                         *)

Treatment(name, price) == [name |-> name, price |-> price]

\* dict.items() of a catalog: built by enumerate, so in ascending key order.
CatalogKeys(cat) == SetToSeq(DOMAIN cat)

\* refresh_treatment_list / refresh_appt_treatment_list: the keys, in order.
refresh_treatment_list(cat) == CatalogKeys(cat)

\* The message box the last handler showed; NoMsg when it showed none.
NoMsg == [kind |-> "none", text |-> "", line |-> 0]
Msg(kind, text) == [kind |-> kind, text |-> text, line |-> 0]
LineMsg(text, i) == [kind |-> "warning", text |-> text, line |-> i]

-----------------------------------------------------------------------------
(* Edit Treatments.  A line of the text box is a name, already stripped;   *)
(* "" is a blank line.                                                     *)

\* old_treatments.get(name, 1000) over the dict captured when the window opened:
\* a later entry of the same name overwrites an earlier one.
OldPrice(old, name) ==
    LET ks == {k \in DOMAIN old : old[k].name = name}
    IN  IF ks = {} THEN IntPrice(DefaultPrice)
        ELSE old[CHOOSE k \in ks : \A j \in ks : j <= k].price

\* The new_treatments dict of save_treatments: blank lines are skipped and
\* leave their number unused.
NewTreatments(old, lines) ==
    [i \in {j \in 1..Len(lines) : lines[j] # ""} |->
        Treatment(lines[i], OldPrice(old, lines[i]))]

edit_treatments ==
    /\ ~treat_win.open
    /\ treat_win' = [open |-> TRUE, treatments |-> treatments]
    /\ UNCHANGED <<treatments, treatment_keys, appt_treatment_keys, price_win>>
    /\ messagebox' = NoMsg
    /\ console' = <<>>
    /\ UNCHANGED <<apptVars, billVars>>

ClosedTreatWin == [open |-> FALSE, treatments |-> <<>>]

save_treatments(lines) ==
    /\ treat_win.open
    /\ IF \A i \in 1..Len(lines) : lines[i] = ""
       THEN /\ messagebox' = Msg("warning", "At least one treatment is required.")
            /\ UNCHANGED catVars
       ELSE LET new == NewTreatments(treat_win.treatments, lines)
            IN  /\ treatments' = new
                /\ treatment_keys' = refresh_treatment_list(new)
                /\ appt_treatment_keys' = refresh_treatment_list(new)
                /\ treat_win' = ClosedTreatWin
                /\ messagebox' = Msg("info", "Treatments updated!")
                /\ UNCHANGED price_win
    /\ console' = <<>>
    /\ UNCHANGED <<apptVars, billVars>>

-----------------------------------------------------------------------------
(* Edit Prices.  A line of the text box is "name: price": its name (the    *)
(* text before the first colon, stripped), whether it has a colon, and its *)
(* price text (after the colon, stripped).  A blank line has none of them. *)

Line(name, sep, price) == [name |-> name, sep |-> sep, price |-> price]

BlankLine == Line("", FALSE, "")

PriceLines ==
    { Line("Cleaning", TRUE, "7000"),   \* valid
      Line("Filling",  TRUE, "500"),    \* valid
      Line("Cleaning", TRUE, "-5"),     \* negative price
      Line("Filling",  TRUE, "abc"),    \* price text that does not parse
      Line("",         TRUE, "500"),    \* empty name
      Line("Cleaning", FALSE, ""),      \* no colon
      BlankLine }

StrippedLines(lines) ==
    Len(lines) > 1 => (lines[1] # BlankLine /\ lines[Len(lines)] # BlankLine)

PriceTexts == {t \in SeqsUpTo(PriceLines, MaxLines) : StrippedLines(t)}

\* The text the window opens with: one "name: price" line per treatment.
PrefillPrices(cat) ==
    LET ks == CatalogKeys(cat)
    IN  [i \in 1..Len(ks) |-> Line(cat[ks[i]].name, TRUE, FormatPrice(cat[ks[i]].price))]

\* A line save_prices passes over without a word (its `continue`s).
Skipped(l) == ~l.sep \/ l.name = ""

\* A line save_prices stops at.
Rejected(l) == ~Skipped(l) /\ (~ParseFloat(l.price).ok \/ ParseFloat(l.price).v < 0)

\* The first line the loop of save_prices stops at, or 0.
FirstRejected(lines) ==
    LET bad == {i \in 1..Len(lines) : Rejected(lines[i])}
    IN  IF bad = {} THEN 0 ELSE CHOOSE i \in bad : \A j \in bad : i <= j

NewPrices(lines) ==
    [i \in {j \in 1..Len(lines) : ~Skipped(lines[j])} |->
        Treatment(lines[i].name, ParseFloat(lines[i].price).f)]

ClosedPriceWin == [open |-> FALSE, text |-> <<>>]

edit_prices ==
    /\ ~price_win.open
    /\ price_win' = [open |-> TRUE, text |-> PrefillPrices(treatments)]
    /\ UNCHANGED <<treatments, treatment_keys, appt_treatment_keys, treat_win>>
    /\ messagebox' = NoMsg
    /\ console' = <<>>
    /\ UNCHANGED <<apptVars, billVars>>

\* The user replaces the text of the box.
type_prices(texts) ==
    /\ price_win.open
    /\ \E t \in texts : price_win' = [price_win EXCEPT !.text = t]
    /\ UNCHANGED <<treatments, treatment_keys, appt_treatment_keys, treat_win>>
    /\ messagebox' = NoMsg
    /\ console' = <<>>
    /\ UNCHANGED <<apptVars, billVars>>

\* The price the catalog has for a name, or the price given.
CatalogPrice(cat, name, price) ==
    IF \E k \in DOMAIN cat : cat[k].name = name
    THEN cat[CHOOSE k \in DOMAIN cat : cat[k].name = name].price
    ELSE price

\* Every treatment of every appointment at the price of the catalog.
Repriced(appts, cat) ==
    [i \in 1..Len(appts) |->
        [appts[i] EXCEPT !.treatments =
            [t \in 1..Len(appts[i].treatments) |->
                Treatment(appts[i].treatments[t].name,
                          CatalogPrice(cat, appts[i].treatments[t].name,
                                       appts[i].treatments[t].price))]]]

\* A Save of Edit Prices that carries the new prices into the appointments
\* already booked.
save_prices_retroactive ==
    /\ price_win.open
    /\ LET lines == IF price_win.text = <<>> THEN <<BlankLine>> ELSE price_win.text
           new   == NewPrices(lines)
       IN  /\ FirstRejected(lines) = 0
           /\ DOMAIN new # {}
           /\ treatments' = new
           /\ treatment_keys' = refresh_treatment_list(new)
           /\ appt_treatment_keys' = refresh_treatment_list(new)
           /\ price_win' = ClosedPriceWin
           /\ messagebox' = Msg("info", "Prices updated!")
           /\ appointments' = Repriced(appointments, new)
           /\ UNCHANGED treat_win
    /\ console' = <<>>
    /\ UNCHANGED <<appointments_listbox, selected, edit_win, store, today>>
    /\ UNCHANGED billVars

save_prices ==
    /\ price_win.open
    /\ LET lines == IF price_win.text = <<>> THEN <<BlankLine>> ELSE price_win.text
           bad   == FirstRejected(lines)
           new   == NewPrices(lines)
       IN  IF bad # 0
           THEN /\ messagebox' =
                      IF ParseFloat(lines[bad].price).ok
                      THEN LineMsg("Price cannot be negative.", bad)
                      ELSE LineMsg("Invalid price", bad)
                /\ UNCHANGED catVars
           ELSE IF DOMAIN new = {}
           THEN /\ messagebox' =
                      Msg("warning", "At least one valid treatment:price is required.")
                /\ UNCHANGED catVars
           ELSE /\ treatments' = new
                /\ treatment_keys' = refresh_treatment_list(new)
                /\ appt_treatment_keys' = refresh_treatment_list(new)
                /\ price_win' = ClosedPriceWin
                /\ messagebox' = Msg("info", "Prices updated!")
                /\ UNCHANGED treat_win
    /\ console' = <<>>
    /\ UNCHANGED <<apptVars, billVars>>

close_price_win ==
    /\ price_win.open
    /\ price_win' = ClosedPriceWin
    /\ UNCHANGED <<treatments, treatment_keys, appt_treatment_keys, treat_win>>
    /\ messagebox' = NoMsg
    /\ console' = <<>>
    /\ UNCHANGED <<apptVars, billVars>>

-----------------------------------------------------------------------------
(* Text entries.  entry.get().strip(), strptime(date, "%Y-%m-%d") and      *)
(* strptime(time, "%H:%M") over the texts a user types.                    *)

Strip(s) ==
    CASE s = " Ali " -> "Ali"
      [] s = " Ali Khan " -> "Ali Khan"
      [] s = "  "    -> ""
      [] OTHER       -> s

\* The day a date text names, or -1 where strptime raises ValueError.
ParseDate(s) ==
    CASE s = "D0" -> 0
      [] s = "D1" -> 1
      [] s = "D2" -> 2
      [] s = "D3" -> 3
      [] s = "D4" -> 4
      [] OTHER    -> -1

\* Whether strptime(time, "%H:%M") accepts the text.
ParseTime(s) == s \in {"09:00", "14:30"}

-----------------------------------------------------------------------------
(* Appointments.  oid stands for the identity of the Python object: the    *)
(* class defines no __eq__, so list.index finds an appointment by identity.*)

Appointment(oid, patient_name, phone, date, time_slot, treats) ==
    [oid |-> oid, patient_name |-> Strip(patient_name), phone |-> Strip(phone),
     date |-> date, time_slot |-> time_slot, treatments |-> treats]

\* A JSON number where the date text belongs, as json.load hands it on.
NumberDate == "#20240101"

\* strptime raises TypeError, not ValueError, for a date that is not text.
RaisesTypeError(date) == date = NumberDate

is_upcoming(appt, day) ==
    LET appt_date == ParseDate(appt.date)
    IN  IF appt_date = -1 THEN FALSE ELSE appt_date >= day

\* is_upcoming catches ValueError only: a TypeError of strptime leaves it.
is_upcoming_raises(appt) == RaisesTypeError(appt.date)

\* [appt for appt in self.appointments if appt.is_upcoming()]
Upcoming(appts, day) == SelectSeq(appts, LAMBDA a : is_upcoming(a, day))

RECURSIVE InsertByDateUnstable(_, _)
\* A sort that is not stable: a placed before the elements of its own date.
InsertByDateUnstable(s, a) ==
    IF s = <<>> THEN <<a>>
    ELSE IF ParseDate(s[Len(s)].date) < ParseDate(a.date)
         THEN Append(s, a)
         ELSE Append(InsertByDateUnstable(SubSeq(s, 1, Len(s) - 1), a), s[Len(s)])

RECURSIVE InsertByDate(_, _)
\* a placed after every element of the sorted s whose date is not later.
InsertByDate(s, a) ==
    IF s = <<>> THEN <<a>>
    ELSE IF ParseDate(s[Len(s)].date) <= ParseDate(a.date)
         THEN Append(s, a)
         ELSE Append(InsertByDate(SubSeq(s, 1, Len(s) - 1), a), s[Len(s)])

RECURSIVE SortByDateFrom(_, _)
SortByDateFrom(done, rest) ==
    IF rest = <<>> THEN done
    ELSE SortByDateFrom(InsertByDate(done, Head(rest)), Tail(rest))

\* list.sort(key=date): ascending, stable.
SortByDate(s) == SortByDateFrom(<<>>, s)

\* refresh_appointments_list: one row per upcoming appointment, by date.
refresh_appointments_list(appts, day) ==
    LET upcoming == SortByDate(Upcoming(appts, day))
    IN  [i \in 1..Len(upcoming) |-> upcoming[i].oid]

\* self.appointments.index(appt)
IndexOf(appts, oid) == CHOOSE i \in 1..Len(appts) : appts[i].oid = oid

\* A fresh object: an identity no live appointment has, and none a window remembers.
NewOid(appts, win) ==
    LET used == {appts[i].oid : i \in 1..Len(appts)}
                \cup (IF win.open THEN {win.shown} ELSE {})
    IN  CHOOSE n \in 1..(Cardinality(used) + 1) : n \notin used

-----------------------------------------------------------------------------
(* appointments.json.  The file is absent, holds the JSON list of dicts    *)
(* json.dump wrote, or holds what an interrupted write left: open(.., "w") *)
(* has emptied it and the list is not complete, which json.load rejects.   *)

NoFile      == [exists |-> FALSE, valid |-> FALSE, data |-> <<>>]
JsonFile(d) == [exists |-> TRUE,  valid |-> TRUE,  data |-> d]
BrokenFile  == [exists |-> TRUE,  valid |-> FALSE, data |-> <<>>]

\* A file that is JSON, a list of one dict with the five keys, its date a
\* number: json.load and from_dict accept it.
WrongDateFile ==
    JsonFile(<<[patient_name |-> "Ali", phone |-> "0300", date |-> NumberDate,
                time_slot |-> "09:00", treatments |-> <<>>]>>)

\* float(cost)
ToFloat(price) == [price EXCEPT !.fl = TRUE]

\* A to_dict that leaves the treatments out.
to_dict_no_treatments(appt) ==
    [patient_name |-> appt.patient_name, phone |-> appt.phone, date |-> appt.date,
     time_slot |-> appt.time_slot, treatments |-> <<>>]

to_dict(appt) ==
    [patient_name |-> appt.patient_name, phone |-> appt.phone, date |-> appt.date,
     time_slot |-> appt.time_slot,
     treatments |-> [i \in 1..Len(appt.treatments) |->
                        Treatment(appt.treatments[i].name,
                                  ToFloat(appt.treatments[i].price))]]

from_dict(data, oid) ==
    Appointment(oid, data.patient_name, data.phone, data.date, data.time_slot,
                [i \in 1..Len(data.treatments) |->
                    Treatment(data.treatments[i].name, data.treatments[i].price)])

\* load_appointments: [] when the file is absent or json.load fails.
load_appointments(file) ==
    IF file.exists /\ file.valid
    THEN [i \in 1..Len(file.data) |-> from_dict(file.data[i], i)]
    ELSE <<>>

\* What json.dump writes for the collection.
Dump(appts) == [i \in 1..Len(appts) |-> to_dict(appts[i])]

\* save_appointments: the files the call can leave.  The write succeeds; or,
\* on a disk that fails, open() raises and the file stays as it was, or the
\* write raises after open() emptied the file.  Either failure is caught and
\* printed, and the caller goes on.
Saved(file, printed) == [file |-> file, printed |-> printed]

save_appointments(appts, file, disk_fails) ==
    {Saved(JsonFile(Dump(appts)), <<>>)}
        \cup (IF disk_fails
              THEN {Saved(file, <<"Error saving appointments">>),
                    Saved(BrokenFile, <<"Error saving appointments">>)}
              ELSE {})

-----------------------------------------------------------------------------
(* The Appointments tab.                                                   *)

MaxAppts == 2      \* appointments held at once
MaxToday == 2      \* the last day the clock reaches

\* The edit window: full_index and edit_treat_keys are what edit_appointment
\* computed when it opened.  index, shown and untouched are history, kept for
\* the properties: the row that was selected, the appointment that row
\* showed, and whether the collection and the day are still as they were.
ClosedEditWin ==
    [open |-> FALSE, index |-> 0, full_index |-> 0, shown |-> 0,
     untouched |-> FALSE, edit_treat_keys |-> <<>>]

Touched(win) == [win EXCEPT !.untouched = FALSE]

\* What a user types into the name, phone, date and time entries.
Form(name, phone, date, time) ==
    [name |-> name, phone |-> phone, date |-> date, time |-> time]

ValidForms(names, dates) ==
    {Form(n, "0300", d, "09:00") : n \in names, d \in dates}

\* The forms of the appointment book's specification: a valid one for each
\* of two days, one typed with spaces around the name, and one dated
\* yesterday.
Forms ==
    ValidForms({"Ali"}, {"D1", "D2"})
        \cup {Form(" Ali ", "0300", "D2", "09:00"), Form("Ali", "0300", "D0", "09:00")}

\* curselection(): the selected rows of a list box of n rows, ascending.
Selections(n) == {SetToSeq(S) : S \in SUBSET (1..n)}

\* The checks without the comparison of the date with today.
FormErrorAnyDay(form, sel, day) ==
    LET name == Strip(form.name)
        phone == Strip(form.phone)
        date == Strip(form.date)
        time_slot == Strip(form.time)
    IN  IF name = "" \/ phone = "" \/ date = "" \/ time_slot = ""
        THEN "Please fill all fields."
        ELSE IF ParseDate(date) = -1 THEN "Invalid date format."
        ELSE IF ~ParseTime(time_slot) THEN "Invalid time format."
        ELSE IF sel = <<>> THEN "Please select at least one treatment."
        ELSE ""

\* The checks book_appointment and save_edit make, in their order: the
\* warning they show, or "" when the form passes.
FormError(form, sel, day) ==
    LET name == Strip(form.name)
        phone == Strip(form.phone)
        date == Strip(form.date)
        time_slot == Strip(form.time)
    IN  IF name = "" \/ phone = "" \/ date = "" \/ time_slot = ""
        THEN "Please fill all fields."
        ELSE IF ParseDate(date) = -1 THEN "Invalid date format."
        ELSE IF ParseDate(date) < day THEN "Date must be today or in the future."
        ELSE IF ~ParseTime(time_slot) THEN "Invalid time format."
        ELSE IF sel = <<>> THEN "Please select at least one treatment."
        ELSE ""

\* The (name, cost) tuples of the selected rows, read from the catalog.
SelectedTreatments(cat, keys, sel) == [i \in 1..Len(sel) |-> cat[keys[sel[i]]]]

book_appointment(forms, disk_fails) ==
    /\ \E form \in forms, sel \in Selections(Len(appt_treatment_keys)) :
        LET err == FormError(form, sel, today)
        IN  IF err # ""
            THEN /\ messagebox' = Msg("warning", err)
                 /\ console' = <<>>
                 /\ UNCHANGED apptVars
            ELSE /\ Len(appointments) < MaxAppts
                 /\ LET appointment ==
                            Appointment(NewOid(appointments, edit_win),
                                        Strip(form.name), Strip(form.phone),
                                        Strip(form.date), Strip(form.time),
                                        SelectedTreatments(treatments, appt_treatment_keys, sel))
                        appts == Append(appointments, appointment)
                    IN  /\ appointments' = appts
                        /\ \E saved \in save_appointments(appts, store, disk_fails) :
                            /\ store' = saved.file
                            /\ console' = saved.printed
                        /\ appointments_listbox' = refresh_appointments_list(appts, today)
                 /\ selected' = 0
                 /\ edit_win' = Touched(edit_win)
                 /\ messagebox' = Msg("info", "Appointment booked successfully!")
                 /\ UNCHANGED today
    /\ UNCHANGED <<catVars, billVars>>

\* The Refresh List button.
refresh_button ==
    /\ appointments_listbox' = refresh_appointments_list(appointments, today)
    /\ selected' = 0
    /\ messagebox' = NoMsg
    /\ UNCHANGED <<appointments, edit_win, store, today>>
    /\ console' = <<>>
    /\ UNCHANGED <<catVars, billVars>>

\* The user clicks row p of the list box.
select_row ==
    /\ \E p \in 1..Len(appointments_listbox) : selected' = p
    /\ messagebox' = NoMsg
    /\ UNCHANGED <<appointments, appointments_listbox, edit_win, store, today>>
    /\ console' = <<>>
    /\ UNCHANGED <<catVars, billVars>>

\* Edit Selected.  index is selected[0], counted from 0 in the code and from
\* 1 here; upcoming is filtered, not sorted.
edit_appointment ==
    /\ ~edit_win.open
    /\ LET index == selected
           upcoming == Upcoming(appointments, today)
       IN  IF index = 0
           THEN /\ messagebox' = Msg("warning", "Please select an appointment to edit.")
                /\ UNCHANGED edit_win
           ELSE IF index > Len(upcoming)
           THEN /\ messagebox' = Msg("warning", "Invalid selection.")
                /\ UNCHANGED edit_win
           ELSE /\ edit_win' =
                       [open |-> TRUE, index |-> index,
                        full_index |-> IndexOf(appointments, upcoming[index].oid),
                        shown |-> appointments_listbox[index],
                        untouched |-> TRUE,
                        edit_treat_keys |-> CatalogKeys(treatments)]
                /\ messagebox' = NoMsg
    /\ UNCHANGED <<appointments, appointments_listbox, selected, store, today>>
    /\ console' = <<>>
    /\ UNCHANGED <<catVars, billVars>>

\* The five assignments of save_edit to self.appointments[full_index].
EditedAt(appts, full_index, form, treats) ==
    [appts EXCEPT ![full_index] =
        [oid |-> @.oid, patient_name |-> Strip(form.name), phone |-> Strip(form.phone),
         date |-> Strip(form.date), time_slot |-> Strip(form.time),
         treatments |-> treats]]

\* Save Changes in the edit window.  A key of the window that the catalog no
\* longer has (KeyError), or an index past the end of the list (IndexError),
\* ends the handler where it stands: Tk reports the exception and goes on.
save_edit(forms, disk_fails) ==
    /\ edit_win.open
    /\ \E form \in forms, sel \in Selections(Len(edit_win.edit_treat_keys)) :
        LET err == FormError(form, sel, today)
        IN  IF err # ""
            THEN /\ messagebox' = Msg("warning", err)
                 /\ console' = <<>>
                 /\ UNCHANGED apptVars
            ELSE IF \E i \in 1..Len(sel) :
                        edit_win.edit_treat_keys[sel[i]] \notin DOMAIN treatments
            THEN /\ messagebox' = Msg("exception", "KeyError")
                 /\ console' = <<>>
                 /\ UNCHANGED apptVars
            ELSE IF edit_win.full_index > Len(appointments)
            THEN /\ messagebox' = Msg("exception", "IndexError")
                 /\ console' = <<>>
                 /\ UNCHANGED apptVars
            ELSE LET appts ==
                        EditedAt(appointments, edit_win.full_index, form,
                                 SelectedTreatments(treatments, edit_win.edit_treat_keys, sel))
                 IN  /\ appointments' = appts
                     /\ \E saved \in save_appointments(appts, store, disk_fails) :
                            /\ store' = saved.file
                            /\ console' = saved.printed
                     /\ appointments_listbox' = refresh_appointments_list(appts, today)
                     /\ selected' = 0
                     /\ edit_win' = ClosedEditWin
                     /\ messagebox' = Msg("info", "Appointment updated successfully!")
                     /\ UNCHANGED today
    /\ UNCHANGED <<catVars, billVars>>

close_edit_win ==
    /\ edit_win.open
    /\ edit_win' = ClosedEditWin
    /\ messagebox' = NoMsg
    /\ UNCHANGED <<appointments, appointments_listbox, selected, store, today>>
    /\ console' = <<>>
    /\ UNCHANGED <<catVars, billVars>>

\* del self.appointments[full_index]
Without(appts, i) == SubSeq(appts, 1, i - 1) \o SubSeq(appts, i + 1, Len(appts))

\* Delete Selected, the confirmation answered yes or no.
delete_appointment(disk_fails) ==
    /\ \E yes \in BOOLEAN :
        LET index == selected
            upcoming == Upcoming(appointments, today)
        IN  IF index = 0
            THEN /\ messagebox' = Msg("warning", "Please select an appointment to delete.")
                 /\ console' = <<>>
                 /\ UNCHANGED apptVars
            ELSE IF ~yes
            THEN /\ messagebox' = Msg("askyesno", "no")
                 /\ console' = <<>>
                 /\ UNCHANGED apptVars
            ELSE IF index <= Len(upcoming)
            THEN LET full_index == IndexOf(appointments, upcoming[index].oid)
                     appts == Without(appointments, full_index)
                 IN  /\ appointments' = appts
                     /\ \E saved \in save_appointments(appts, store, disk_fails) :
                            /\ store' = saved.file
                            /\ console' = saved.printed
                     /\ appointments_listbox' = refresh_appointments_list(appts, today)
                     /\ selected' = 0
                     /\ edit_win' = Touched(edit_win)
                     /\ messagebox' = Msg("info", "Appointment deleted successfully!")
                     /\ UNCHANGED today
            ELSE /\ messagebox' = Msg("warning", "Invalid selection. Please try again.")
                 /\ console' = <<>>
                 /\ UNCHANGED apptVars
    /\ UNCHANGED <<catVars, billVars>>

\* Midnight: date.today() moves on; nothing on screen changes.
next_day ==
    /\ today < MaxToday
    /\ today' = today + 1
    /\ edit_win' = Touched(edit_win)
    /\ messagebox' = NoMsg
    /\ UNCHANGED <<appointments, appointments_listbox, selected, store>>
    /\ console' = <<>>
    /\ UNCHANGED <<catVars, billVars>>

-----------------------------------------------------------------------------
(* Texts of bills.  A text is a sequence of pieces.  "=", the space and    *)
(* the newline are pieces of one character each; every other piece is a    *)
(* run of characters with no "=" and no newline in it, and with no white    *)
(* space at its ends but for the labels, which are never at the end of a    *)
(* record.                                                                  *)

MaxBills == 2      \* bills generated in a run
MaxClock == 1      \* the last second the clock reaches

NL == "\n"
SP == " "
EQ == "="

Repeat(c, n) == [i \in 1..n |-> c]

\* str.lower(), piece by piece.
Lower(a) ==
    CASE a = "Date & Time: "       -> "date & time: "
      [] a = "BILL RECEIPT"        -> "bill receipt"
      [] a = "VIP BILL RECEIPT"    -> "vip bill receipt"
      [] a = "Clinic: "            -> "clinic: "
      [] a = "Bright Smile Dental Clinic" -> "bright smile dental clinic"
      [] a = "Patient Name: "      -> "patient name: "
      [] a = "VIP Patient Name: "  -> "vip patient name: "
      [] a = "Phone: "             -> "phone: "
      [] a = "Treatments:"         -> "treatments:"
      [] a = ": Rs. "              -> ": rs. "
      [] a = "Total Amount: Rs. "  -> "total amount: rs. "
      [] a = "Original Total: Rs. " -> "original total: rs. "
      [] a = "Discount: "          -> "discount: "
      [] a = "Total Amount after Discount: Rs. " -> "total amount after discount: rs. "
      [] a = "Cleaning"            -> "cleaning"
      [] a = "Filling"             -> "filling"
      [] a = "Ali"                 -> "ali"
      [] a = "Ali Khan"            -> "ali khan"
      [] a = "ALI KHAN"            -> "ali khan"
      [] a = "Ali_Khan"            -> "ali_khan"
      [] a = "Zed"                 -> "zed"
      [] a = "Enter name or phone (partial match)..."
                                   -> "enter name or phone (partial match)..."
      [] OTHER                     -> a

LowerText(t) == [i \in DOMAIN t |-> Lower(t[i])]

IsSpace(a) == a \in {SP, NL}

RECURSIVE LStrip(_)
LStrip(t) == IF t # <<>> /\ IsSpace(Head(t)) THEN LStrip(Tail(t)) ELSE t

RECURSIVE RStrip(_)
RStrip(t) ==
    IF t # <<>> /\ IsSpace(t[Len(t)]) THEN RStrip(SubSeq(t, 1, Len(t) - 1)) ELSE t

\* A text taken as it was typed.
Unstripped(t) == t

\* str.strip() of a text.
StripText(t) == RStrip(LStrip(t))

\* q occurs in t: re.search(re.escape(q), t).
IsSubstring(q, t) ==
    \E i \in 0..(Len(t) - Len(q)) : \A k \in 1..Len(q) : t[i + k] = q[k]

IsPrefix(q, t) == Len(q) <= Len(t) /\ SubSeq(t, 1, Len(q)) = q

RECURSIVE JoinLines(_)
\* "\n".join(lines)
JoinLines(lines) ==
    IF Len(lines) = 0 THEN <<>>
    ELSE IF Len(lines) = 1 THEN lines[1]
    ELSE lines[1] \o <<NL>> \o JoinLines(Tail(lines))

\* strftime over the seconds of the clock.
now_str(t) ==
    CASE t = 0 -> "2026-01-05 10:00:00"
      [] t = 1 -> "2026-01-05 10:00:01"
      [] t = 2 -> "2026-01-05 10:00:02"
      [] OTHER -> "2026-01-05 10:00:03"

timestamp(t) ==
    CASE t = 0 -> "20260105_100000"
      [] t = 1 -> "20260105_100001"
      [] t = 2 -> "20260105_100002"
      [] OTHER -> "20260105_100003"

today_str(t) == "2026-01-05"

-----------------------------------------------------------------------------
(* Patients and their bills.                                               *)

clinic_name == "Bright Smile Dental Clinic"

Patient(name, phone, treats) ==
    [vip |-> FALSE, name |-> Strip(name), phone |-> Strip(phone),
     discount |-> FloatPrice(0), treatments |-> treats]

VIPPatient(name, phone, discount, treats) ==
    [vip |-> TRUE, name |-> Strip(name), phone |-> Strip(phone),
     discount |-> discount, treatments |-> treats]

\* Patient.add_treatment: a tuple that is not empty is appended, whatever its
\* name and its price; the tuples of the catalog are never empty.
add_treatment(treats, treatment) == Append(treats, treatment)

RECURSIVE AddTreatments(_, _)
\* for idx in selected_indices: self.patient.add_treatment(treatment)
AddTreatments(treats, chosen) ==
    IF chosen = <<>> THEN treats
    ELSE AddTreatments(add_treatment(treats, Head(chosen)), Tail(chosen))

RECURSIVE SumCosts(_)
\* sum(cost for _, cost in treatments): an int until a float is added, nan
\* once a nan is added.
SumCosts(treats) ==
    IF treats = <<>> THEN IntPrice(0)
    ELSE LET rest == SumCosts(Tail(treats))
             cost == Head(treats).price
         IN  [v |-> cost.v + rest.v + (cost.c + rest.c) \div 100,
              c |-> (cost.c + rest.c) % 100,
              fl |-> cost.fl \/ rest.fl,
              nan |-> cost.nan \/ rest.nan]

\* A number in hundredths, and a discount in halves of a percent.
InHundredths(p) == 100 * p.v + p.c
InHalves(p)     == 2 * p.v + p.c \div 50

\* round(total * (1 - discount / 100.0), 2) where the product lies half way
\* between two hundredths: the double that 1 - discount / 100.0 gives is
\* not the exact factor, and the product falls on one side.  Whether it is
\* rounded up, for a total in hundredths and a discount in halves.
TieRoundsUp(total, discount) ==
    CASE total = 100 /\ discount = 1  -> FALSE    \* 1 * 0.995 -> 0.99
      [] total = 100 /\ discount = 3  -> FALSE    \* 1 * 0.985 -> 0.98
      [] total = 100 /\ discount = 5  -> FALSE    \* 1 * 0.975 -> 0.97
      [] total = 100 /\ discount = 25 -> TRUE     \* 1 * 0.875 -> 0.88
      [] OTHER                        -> TRUE

\* The discounted total in hundredths.  Away from a tie the double is
\* rounded to the hundredth nearest to the exact product.
Discounted(total, discount) ==
    LET n == total * (200 - discount)
        q == n \div 200
        r == n % 200
    IN  IF r < 100 THEN q
        ELSE IF r > 100 THEN q + 1
        ELSE IF TieRoundsUp(total, discount) THEN q + 1 ELSE q

\* Patient.calculate_total and VIPPatient.calculate_total.
calculate_total(patient) ==
    IF patient.vip
    THEN IF SumCosts(patient.treatments).nan \/ patient.discount.nan THEN NaN
         ELSE Hundredths(Discounted(InHundredths(SumCosts(patient.treatments)),
                                    InHalves(patient.discount)))
    ELSE SumCosts(patient.treatments)

\* The lines of the treatments, last selection first.
TreatmentLinesReversed(treats) ==
    IF treats = <<>> THEN << <<"- (No treatments selected)">> >>
    ELSE [i \in 1..Len(treats) |->
            <<"- ", treats[Len(treats) + 1 - i].name, ": Rs. ",
              FormatPrice(treats[Len(treats) + 1 - i].price)>>]

TreatmentLines(treats) ==
    IF treats = <<>> THEN << <<"- (No treatments selected)">> >>
    ELSE [i \in 1..Len(treats) |->
            <<"- ", treats[i].name, ": Rs. ", FormatPrice(treats[i].price)>>]

Dashes == <<"---------------------------">>

\* Patient._build_bill_text and VIPPatient._build_bill_text.
_build_bill_text(patient, title) ==
    JoinLines(
        << <<NL>> \o Repeat(EQ, 5) \o <<SP, title, SP>> \o Repeat(EQ, 5),
           <<"Clinic: ", clinic_name>>,
           <<IF patient.vip THEN "VIP Patient Name: " ELSE "Patient Name: ", patient.name>>,
           <<"Phone: ", patient.phone>>,
           Dashes,
           <<"Treatments:">> >>
        \o TreatmentLines(patient.treatments)
        \o << Dashes >>
        \o (IF patient.vip
            THEN << <<"Original Total: Rs. ", FormatPrice(SumCosts(patient.treatments))>>,
                    <<"Discount: ", FormatPrice(patient.discount), "%">>,
                    <<"Total Amount after Discount: Rs. ", FormatPrice(calculate_total(patient))>> >>
            ELSE << <<"Total Amount: Rs. ", FormatPrice(calculate_total(patient))>> >>)
        \o << Repeat(EQ, 27) >>)

-----------------------------------------------------------------------------
(* The bill files: patient_bills.txt, the combined log, and one file per   *)
(* bill under bills/<day>/.                                                *)

NoLog == [exists |-> FALSE, text |-> <<>>]

\* A log opened with "w": the text replaces what the file held.
write_to_log(log, text) == [exists |-> TRUE, text |-> text]

\* open(combined_path, "a") and f.write(text).
append_to_log(log, text) == [exists |-> TRUE, text |-> log.text \o text]

\* The fpdf2 package is not installed: the import at the top of the program
\* fails and no PDF is written.
PDF_AVAILABLE == FALSE

\* re.sub(r'[^A-Za-z0-9_\-]+', '_', name) or "patient"
safe_name(name) ==
    CASE name = "Ali Khan" -> "Ali_Khan"
      [] name = ""         -> "patient"
      [] OTHER             -> name

individual_path(name, t, ext) ==
    [folder |-> today_str(t), safe_name |-> safe_name(name),
     timestamp |-> timestamp(t), ext |-> ext]

\* open(path, "w") and f.write(text): the file is created, or replaced.
write_file(files, path, text) ==
    {f \in files : f.path # path} \cup {[path |-> path, text |-> text]}

BillSaved(log, files, logged, filed, printed) ==
    [log |-> log, files |-> files, logged |-> logged, filed |-> filed,
     printed |-> printed, raised |-> FALSE]

\* The call left through an exception: nothing was written, nothing returned.
BillRaised(log, files) ==
    [log |-> log, files |-> files, logged |-> FALSE, filed |-> FALSE,
     printed |-> <<>>, raised |-> TRUE]

\* save_bill_to_files: what the call can leave on disk, and the lines it
\* printed.  os.makedirs runs outside every try: on a disk that fails it
\* raises out of the call.  Each of the two writes goes through, or, on a disk
\* that fails, raises in open(), is caught and printed, and leaves its file as
\* it was.
save_bill_to_files(patient, bill_text, log, files, t, disk_fails) ==
    LET txt_path == individual_path(patient.name, t, "txt")
        pdf_path == individual_path(patient.name, t, "pdf")
        outcomes == IF disk_fails THEN BOOLEAN ELSE {TRUE}
        with_pdf(fs) == IF PDF_AVAILABLE THEN write_file(fs, pdf_path, bill_text) ELSE fs
        printed(logged, filed) ==
            (IF logged THEN <<>> ELSE <<"Error saving combined bill file">>)
            \o (IF filed THEN <<>> ELSE <<"Error saving individual TXT file">>)
            \o (IF PDF_AVAILABLE THEN <<>>
                ELSE <<"PDF saving skipped: fpdf2 not installed.">>)
    IN  {BillSaved(IF logged THEN append_to_log(log, bill_text \o <<NL, NL>>) ELSE log,
                   with_pdf(IF filed THEN write_file(files, txt_path, bill_text \o <<NL>>)
                            ELSE files),
                   logged, filed, printed(logged, filed)) :
            logged \in outcomes, filed \in outcomes}
        \cup (IF disk_fails THEN {BillRaised(log, files)} ELSE {})

-----------------------------------------------------------------------------
(* The Billing tab.                                                        *)

BillForm(name, phone, type, discount) ==
    [name |-> name, phone |-> phone, type |-> type, discount |-> discount]

\* What a user enters: two patients whose names differ in one character, a
\* VIP patient, and a form for each check of generate_bill.
BillForms ==
    { BillForm("Ali Khan",   "0300", "normal", "10"),
      BillForm("Ali_Khan",   "0300", "normal", "10"),
      BillForm(" Ali Khan ", "0300", "vip",    "10"),
      BillForm("  ",         "0300", "normal", "10"),    \* no name
      BillForm("Ali Khan",   "",     "normal", "10"),    \* no phone
      BillForm("Ali Khan",   "0300", "vip",    "abc"),   \* no number
      BillForm("Ali Khan",   "0300", "vip",    "150") }  \* out of range

\* discount < n and discount > n: both false for nan.
Less(f, n)    == ~f.nan /\ InHundredths(f) < 100 * n
Greater(f, n) == ~f.nan /\ InHundredths(f) > 100 * n

\* The checks of generate_bill, in their order: the warning shown, or "".
BillError(form, sel) ==
    IF Strip(form.name) = "" THEN "Please enter patient name."
    ELSE IF Strip(form.phone) = "" THEN "Please enter phone number."
    ELSE IF form.type = "vip" /\ ~ParseFloat(form.discount).ok THEN "Invalid discount value."
    ELSE IF form.type = "vip"
            /\ (Less(ParseFloat(form.discount).f, 0) \/ Greater(ParseFloat(form.discount).f, 100))
    THEN "Discount must be between 0 and 100."
    ELSE IF sel = <<>> THEN "Please select at least one treatment."
    ELSE ""

\* A bill as the history keeps it: the text appended to the log, the path of
\* its own file, whether each write went through, and the patient
\* (self.patient) the bill was made of.
Generated(text, path, logged, filed, patient) ==
    [text |-> text, path |-> path, logged |-> logged, filed |-> filed,
     patient |-> patient]

\* The handler ended with an exception nobody caught: Tk's callback wrapper
\* reports it and no message box of the handler is shown.
Raised(error) == Msg("exception", error)

\* The Generate Bill button.  The bill is built and shown before it is saved;
\* an exception out of save_bill_to_files ends the handler before its
\* success box.
generate_bill(forms, disk_fails) ==
    /\ \E form \in forms, sel \in Selections(Len(treatment_keys)) :
        LET err == BillError(form, sel)
        IN  IF err # ""
            THEN /\ messagebox' = Msg("warning", err)
                 /\ console' = <<>>
                 /\ UNCHANGED billVars
            ELSE /\ Len(generated) < MaxBills
                 /\ LET treats ==
                            AddTreatments(<<>>, SelectedTreatments(treatments, treatment_keys, sel))
                        patient ==
                            IF form.type = "vip"
                            THEN VIPPatient(form.name, form.phone,
                                            ParseFloat(form.discount).f, treats)
                            ELSE Patient(form.name, form.phone, treats)
                        bill_text ==
                            _build_bill_text(patient,
                                IF form.type = "vip" THEN "VIP BILL RECEIPT" ELSE "BILL RECEIPT")
                        full_text == <<"Date & Time: ", now_str(now), NL>> \o bill_text
                    IN  \E saved \in save_bill_to_files(patient, full_text, bills_log,
                                                        bill_files, now, disk_fails) :
                            /\ bills_log' = saved.log
                            /\ bill_files' = saved.files
                            /\ console' = saved.printed
                            /\ generated' =
                                   IF saved.raised THEN generated
                                   ELSE Append(generated,
                                          Generated(full_text \o <<NL, NL>>,
                                                    individual_path(patient.name, now, "txt"),
                                                    saved.logged, saved.filed, patient))
                            /\ messagebox' =
                                   IF saved.raised THEN Raised("OSError")
                                   ELSE Msg("info", "Bill generated and saved!")
                 /\ UNCHANGED <<now, search_results>>
    /\ UNCHANGED <<catVars, apptVars>>

\* A second passes.
tick ==
    /\ now < MaxClock
    /\ now' = now + 1
    /\ messagebox' = NoMsg
    /\ console' = <<>>
    /\ UNCHANGED <<bills_log, bill_files, search_results, generated>>
    /\ UNCHANGED <<catVars, apptVars>>

-----------------------------------------------------------------------------
(* The Search tab.                                                         *)

ShownLimit == 10

\* The query as typed, the status line of the results box, every match,
\* the matches the box shows: matching_bills[:10], and the number of the
\* line "... and N more matches", 0 when the box has no such line.
SearchResult(typed, status, matching) ==
    [query |-> typed, status |-> status, matching |-> matching,
     shown |-> SubSeq(matching, 1, IF Len(matching) > ShownLimit THEN ShownLimit
                                   ELSE Len(matching)),
     more  |-> IF Len(matching) > ShownLimit THEN Len(matching) - ShownLimit ELSE 0]

NoSearch == SearchResult(<<>>, "Enter a search query", <<>>)

\* The lookahead (?=={5,}|\n{3,}) matches at offset p of the text.
LookaheadAt(text, p) ==
    \/ p + 5 <= Len(text) /\ \A k \in 1..5 : text[p + k] = EQ
    \/ p + 3 <= Len(text) /\ \A k \in 1..3 : text[p + k] = NL

\* The offsets the text is cut at, and its two ends, ascending.
SplitOffsets(text) ==
    SelectSeq([i \in 1..(Len(text) + 1) |-> i - 1],
              LAMBDA p : p = 0 \/ p = Len(text) \/ LookaheadAt(text, p))

PiecesBetween(text, ends) ==
    [i \in 1..(Len(ends) - 1) |-> SubSeq(text, ends[i] + 1, ends[i + 1])]

\* re.split(r'(?=={5,}|\n{3,})', content): the text is cut at every offset
\* where the lookahead matches, offset 0 included.
regex_split(text) ==
    IF text = <<>> THEN << <<>> >>
    ELSE (IF LookaheadAt(text, 0) THEN << <<>> >> ELSE <<>>)
            \o PiecesBetween(text, SplitOffsets(text))

\* The matches, the last record of the log first.
matching_bills_last_first(bills, query) ==
    SelectSeq([i \in 1..Len(bills) |-> StripText(bills[Len(bills) + 1 - i])],
              LAMBDA bill : bill # <<>> /\ IsSubstring(query, LowerText(bill)))

\* [bill.strip() for bill in bills if bill.strip() and re.search(query, bill.lower())]
matching_bills(bills, query) ==
    SelectSeq([i \in 1..Len(bills) |-> StripText(bills[i])],
              LAMBDA bill : bill # <<>> /\ IsSubstring(query, LowerText(bill)))

\* The results box says of every search what it says of a missing log.
ShowMatchesAsNoRecords(typed, matching) ==
    IF matching # <<>> THEN SearchResult(typed, "Found", matching)
    ELSE SearchResult(typed, "No bill records found.", <<>>)

\* What the results box shows for the matches.
ShowMatches(typed, matching) ==
    IF matching # <<>> THEN SearchResult(typed, "Found", matching)
    ELSE SearchResult(typed, "No matching records found.", <<>>)

\* The queries a user types: a name, the name in capitals after a space, a
\* date and time, the title with the "=" that follows it, a
\* "=", a name no bill has, nothing, and the hint the entry starts with.
Queries ==
    { <<"Ali Khan">>, <<SP, "ALI KHAN">>, <<now_str(0)>>,
      <<"BILL RECEIPT", SP, EQ>>, <<EQ>>, <<"Zed">>, <<SP>>,
      <<"Enter name or phone (partial match)...">> }

search_bills(queries, disk_fails) ==
    /\ \E typed \in queries, read_fails \in (IF disk_fails THEN BOOLEAN ELSE {FALSE}) :
        LET query == LowerText(StripText(typed))
        IN  IF query = <<>> \/ query = <<"enter name or phone (partial match)...">>
            THEN /\ messagebox' = Msg("warning", "Please enter a valid search term (name or phone).")
                 /\ UNCHANGED search_results
            ELSE IF ~bills_log.exists
            THEN /\ search_results' = SearchResult(typed, "No bill records found.", <<>>)
                 /\ messagebox' = Msg("info", "No bill records exist yet.")
            ELSE IF read_fails
            THEN /\ search_results' = SearchResult(typed, "Error during search", <<>>)
                 /\ messagebox' = Msg("error", "Failed to search bills")
            ELSE /\ search_results' =
                        ShowMatches(typed, matching_bills(regex_split(bills_log.text), query))
                 /\ messagebox' = IF search_results'.matching # <<>>
                                  THEN Msg("info", "Found matches.")
                                  ELSE Msg("info", "No matches found.")
    /\ console' = <<>>
    /\ UNCHANGED <<bills_log, bill_files, now, generated>>
    /\ UNCHANGED <<catVars, apptVars>>

-----------------------------------------------------------------------------
(* Restart.                                                                *)

\* setup_appointments_tab fills the list box while __init__ runs: an
\* exception of is_upcoming there leaves __init__ and ends the program.
StartupRaises(appts) == \E i \in 1..Len(appts) : is_upcoming_raises(appts[i])

\* The program has ended with an exception out of __init__.
Aborted == messagebox = Raised("TypeError")

\* The file is changed from outside the program: cut short, or replaced by
\* one whose date is not text.
damage_file ==
    /\ store' \in {BrokenFile, WrongDateFile}
    /\ store' # store
    /\ messagebox' = NoMsg
    /\ console' = <<>>
    /\ UNCHANGED <<catVars, billVars>>
    /\ UNCHANGED <<appointments, appointments_listbox, selected, edit_win, today>>

\* The program is closed and started again: DentalClinicGUI.__init__ over
\* the files on disk.
restart ==
    /\ treatments' = <<>>
    /\ treatment_keys' = <<>>
    /\ appt_treatment_keys' = <<>>
    /\ treat_win' = ClosedTreatWin
    /\ price_win' = ClosedPriceWin
    /\ appointments' = load_appointments(store)
    /\ appointments_listbox' =
           IF StartupRaises(load_appointments(store)) THEN <<>>
           ELSE refresh_appointments_list(load_appointments(store), today)
    /\ selected' = 0
    /\ edit_win' = ClosedEditWin
    /\ search_results' = NoSearch
    /\ messagebox' = IF StartupRaises(load_appointments(store))
                     THEN Raised("TypeError") ELSE NoMsg
    /\ console' = IF store.exists /\ ~store.valid
                  THEN <<"Error loading appointments">> ELSE <<>>
    /\ UNCHANGED <<store, today, bills_log, bill_files, now, generated>>

-----------------------------------------------------------------------------
(* The state after DentalClinicGUI.__init__ with no appointments.json and  *)
(* no patient_bills.txt on disk.                                           *)

Init ==
    /\ treatments = <<>>
    /\ treatment_keys = <<>>
    /\ appt_treatment_keys = <<>>
    /\ treat_win = ClosedTreatWin
    /\ price_win = ClosedPriceWin
    /\ appointments = <<>>
    /\ appointments_listbox = <<>>
    /\ selected = 0
    /\ edit_win = ClosedEditWin
    /\ store = NoFile
    /\ today = 1
    /\ bills_log = NoLog
    /\ bill_files = {}
    /\ now = 0
    /\ search_results = NoSearch
    /\ generated = <<>>
    /\ messagebox = NoMsg
    /\ console = <<>>

-----------------------------------------------------------------------------
(* The Edit Prices window alone, with any text in its box.                 *)

NextPrices ==
    \/ edit_prices
    \/ type_prices(PriceTexts)
    \/ save_prices
    \/ close_price_win

SpecPrices == Init /\ [][NextPrices]_vars

-----------------------------------------------------------------------------
(* The appointment book on a disk that takes every write, over a catalog   *)
(* entered in the Edit Treatments window.                                  *)

ClinicTreatments == {<<"Cleaning">>}

Next ==
    \/ edit_treatments
    \/ \E lines \in ClinicTreatments : save_treatments(lines)
    \/ book_appointment(Forms, FALSE)
    \/ refresh_button
    \/ select_row
    \/ edit_appointment
    \/ save_edit(Forms, FALSE)
    \/ close_edit_win
    \/ delete_appointment(FALSE)
    \/ next_day

Spec == Init /\ [][Next]_vars

(* The list of upcoming appointments: the handlers that fill the list box, *)
(* and midnight.                                                           *)

ListForms ==
    ValidForms({"Ali"}, {"D1", "D2"}) \cup {Form("Ali", "0300", "D0", "09:00")}

NextList ==
    \/ edit_treatments
    \/ \E lines \in ClinicTreatments : save_treatments(lines)
    \/ book_appointment(ListForms, FALSE)
    \/ select_row
    \/ edit_appointment
    \/ save_edit(ListForms, FALSE)
    \/ delete_appointment(FALSE)
    \/ next_day

SpecList == Init /\ [][NextList]_vars

-----------------------------------------------------------------------------
(* The appointment book and its file, on a disk whose writes can fail, and *)
(* across restarts of the program.                                         *)

StoreTreatments == {<<"Cleaning">>}

StoreForms == {Form("Ali", "0300", "D1", "09:00"), Form(" Ali ", "0300", "D2", "09:00")}

NextStore ==
    \/ edit_treatments
    \/ \E lines \in StoreTreatments : save_treatments(lines)
    \/ book_appointment(StoreForms, TRUE)
    \/ select_row
    \/ edit_appointment
    \/ save_edit(StoreForms, TRUE)
    \/ delete_appointment(TRUE)
    \/ restart

SpecStore == Init /\ [][NextStore]_vars

-----------------------------------------------------------------------------
(* The appointment book across restarts of the program, on a disk that     *)
(* takes every write.                                                      *)

NextReload ==
    \/ edit_treatments
    \/ \E lines \in StoreTreatments : save_treatments(lines)
    \/ book_appointment(StoreForms, FALSE)
    \/ select_row
    \/ edit_appointment
    \/ save_edit(StoreForms, FALSE)
    \/ delete_appointment(FALSE)
    \/ restart

SpecReload == Init /\ [][NextReload]_vars

(* Booking across midnight: forms dated yesterday, today and tomorrow, on  *)
(* a disk that takes every write.                                          *)

BookForms ==
    { Form("Ali", "0300", "D0", "09:00"),
      Form("Ali", "0300", "D1", "09:00"),
      Form(" Ali ", "0300", "D2", "14:30") }

NextBook ==
    \/ edit_treatments
    \/ \E lines \in StoreTreatments : save_treatments(lines)
    \/ book_appointment(BookForms, FALSE)
    \/ select_row
    \/ delete_appointment(FALSE)
    \/ next_day

SpecBook == Init /\ [][NextBook]_vars

(* The appointment file damaged from outside between two runs of the       *)
(* program.  A program that has ended takes no step until it is started    *)
(* again.                                                                  *)

NextDamage ==
    \/ ~Aborted /\ edit_treatments
    \/ ~Aborted /\ \E lines \in StoreTreatments : save_treatments(lines)
    \/ ~Aborted /\ book_appointment(StoreForms, FALSE)
    \/ ~Aborted /\ select_row
    \/ ~Aborted /\ delete_appointment(FALSE)
    \/ damage_file
    \/ restart

SpecDamage == Init /\ [][NextDamage]_vars

-----------------------------------------------------------------------------
(* The Billing and Search tabs; the log can fail to be read.                *)

NextBills ==
    \/ edit_treatments
    \/ \E lines \in ClinicTreatments : save_treatments(lines)
    \/ generate_bill(BillForms, FALSE)
    \/ search_bills(Queries, TRUE)
    \/ tick

SpecBills == Init /\ [][NextBills]_vars

-----------------------------------------------------------------------------
(* The log of bills: bills of two patients, and searches that match, match  *)
(* nothing, or are refused.                                                 *)

LogForms ==
    { BillForm("Ali Khan",   "0300", "normal", "10"),
      BillForm(" Ali Khan ", "0300", "vip",    "10") }

LogQueries == { <<SP, "ALI KHAN">>, <<"Zed">>, <<SP>> }

NextLog ==
    \/ edit_treatments
    \/ \E lines \in ClinicTreatments : save_treatments(lines)
    \/ generate_bill(LogForms, FALSE)
    \/ search_bills(LogQueries, TRUE)
    \/ tick

SpecLog == Init /\ [][NextLog]_vars

(* Bills on a disk that can fail: every write of save_bill_to_files, and    *)
(* the creation of the day's folder, goes through or fails.                 *)

NextBillDisk ==
    \/ edit_treatments
    \/ \E lines \in ClinicTreatments : save_treatments(lines)
    \/ generate_bill(LogForms, TRUE)
    \/ tick

SpecBillDisk == Init /\ [][NextBillDisk]_vars

(* Totals of bills.  The catalog is one that Edit Treatments and Edit      *)
(* Prices have left: a treatment at its default price, prices typed as     *)
(* "1", "500" and "nan".  The forms are VIP forms over the discounts a     *)
(* user can type, and a normal one.                                        *)

TotalsCatalogs ==
    { << Treatment("Cleaning", ParseFloat("1").f) >>,
      << Treatment("Cleaning", IntPrice(DefaultPrice)),
         Treatment("Filling", ParseFloat("500").f) >>,
      << Treatment("Cleaning", ParseFloat("nan").f) >> }

TotalsForms ==
    { BillForm("Ali Khan", "0300", "vip", d) : d \in {"0", "0.5", "10", "100", "150", "-5", "nan"} }
        \cup { BillForm("Ali Khan", "0300", "normal", "10") }

InitTotals ==
    /\ treatments \in TotalsCatalogs
    /\ treatment_keys = CatalogKeys(treatments)
    /\ appt_treatment_keys = CatalogKeys(treatments)
    /\ treat_win = ClosedTreatWin
    /\ price_win = ClosedPriceWin
    /\ appointments = <<>>
    /\ appointments_listbox = <<>>
    /\ selected = 0
    /\ edit_win = ClosedEditWin
    /\ store = NoFile
    /\ today = 1
    /\ bills_log = NoLog
    /\ bill_files = {}
    /\ now = 0
    /\ search_results = NoSearch
    /\ generated = <<>>
    /\ messagebox = NoMsg
    /\ console = <<>>

NextTotals ==
    \/ generate_bill(TotalsForms, FALSE)
    \/ tick

SpecTotals == InitTotals /\ [][NextTotals]_vars

(* Bills over a catalog entered in the Edit Prices window.                 *)

PricedTexts ==
    { << Line("Cleaning", TRUE, "7000") >>,
      << Line("Cleaning", TRUE, "7000"), Line("Filling", TRUE, "500") >> }

PricedForms == { BillForm("Ali Khan", "0300", "normal", "10") }

NextPriced ==
    \/ edit_prices
    \/ type_prices(PricedTexts)
    \/ save_prices
    \/ generate_bill(PricedForms, FALSE)
    \/ tick

SpecPriced == Init /\ [][NextPriced]_vars

(* Rendering of bills: a catalog of two treatments, a standard and a VIP   *)
(* patient, every selection in the order of the list box.                  *)

RenderForms ==
    { BillForm("Ali Khan", "0300", "normal", "10"),
      BillForm("Ali Khan", "0300", "vip",    "10") }

InitRender ==
    /\ InitTotals
    /\ Len(treatments) = 2

NextRender ==
    \/ generate_bill(RenderForms, FALSE)
    \/ tick

SpecRender == InitRender /\ [][NextRender]_vars

-----------------------------------------------------------------------------
(* Properties of Edit Prices.                                              *)

\* A step of the Save button of the Edit Prices window: the one handler of
\* that window that ends with a message box.
PricesSaveStep == price_win.open /\ messagebox' # NoMsg

\* The text the Save button reads.
SavedLines == price_win.text

\* A line that is not "name: price" with a name and a price of 0 or more.
InvalidLine(l) ==
    /\ l # BlankLine
    /\ \/ ~l.sep
       \/ l.name = ""
       \/ ~ParseFloat(l.price).ok
       \/ ParseFloat(l.price).v < 0

\* C5: a Save of a text in which one line is invalid (a price that does not
\* parse, a negative price, no colon, or no name) leaves the catalog as it
\* was.
C5_ReplacePricesAtomic ==
    [][(PricesSaveStep
         /\ Cardinality({i \in 1..Len(SavedLines) : InvalidLine(SavedLines[i])}) = 1)
          => treatments' = treatments]_vars

\* The lines with a price text that is not a price of 0 or more, or with no
\* name before the colon.
Offending(lines) ==
    {i \in 1..Len(lines) :
        /\ lines[i].sep
        /\ \/ lines[i].name = ""
           \/ ~ParseFloat(lines[i].price).ok
           \/ ParseFloat(lines[i].price).v < 0}

\* C6: a Save of a text with a line whose price is not a price of 0 or more,
\* or whose name is empty, ends in a warning that names the number of such a
\* line, and the catalog does not take the text.
C6_InvalidLineNamed ==
    [][(PricesSaveStep /\ Offending(SavedLines) # {})
          => /\ messagebox'.kind = "warning"
             /\ messagebox'.line \in Offending(SavedLines)]_vars

-----------------------------------------------------------------------------
(* Properties of the appointment book.                                     *)

\* A step in which Save Changes went through.
EditSaved ==
    /\ edit_win.open
    /\ ~edit_win'.open
    /\ messagebox' = Msg("info", "Appointment updated successfully!")

\* A step in which Delete Selected removed an appointment.
DeleteDone ==
    /\ messagebox' = Msg("info", "Appointment deleted successfully!")
    /\ Len(appointments') = Len(appointments) - 1

\* A step in which Book Appointment added one.
BookDone ==
    /\ messagebox' = Msg("info", "Appointment booked successfully!")
    /\ Len(appointments') = Len(appointments) + 1

\* C1: a successful edit of the appointment shown at row p of the list box
\* changes that appointment and no other, whatever the storage order.  The
\* window is one opened on the collection as it still is.
C1_EditChangesDisplayed ==
    [][(EditSaved /\ edit_win.untouched) =>
          /\ Len(appointments') = Len(appointments)
          /\ \A i \in 1..Len(appointments) :
                appointments[i].oid # edit_win.shown => appointments'[i] = appointments[i]]_vars

\* C2: a confirmed delete with row p selected removes the appointment that row
\* shows and no other, and the store is rewritten with what is left.
C2_DeleteRemovesDisplayed ==
    [][DeleteDone =>
          /\ selected \in 1..Len(appointments_listbox)
          /\ \E i \in 1..Len(appointments) :
                /\ appointments[i].oid = appointments_listbox[selected]
                /\ appointments' = Without(appointments, i)
          /\ store' = JsonFile(Dump(appointments'))]_vars

\* The day of the appointment a row of the list box shows.
RowDate(appts, oid) == ParseDate(appts[IndexOf(appts, oid)].date)

\* The list box shows exactly the appointments of the day or later, each
\* once, by day ascending, and those of one day in storage order.
ListsUpcoming(rows, appts, day) ==
    /\ Range(rows) = {appts[i].oid : i \in {j \in 1..Len(appts) : ParseDate(appts[j].date) >= day}}
    /\ Cardinality(Range(rows)) = Len(rows)
    /\ \A i, j \in 1..Len(rows) :
          i < j => /\ RowDate(appts, rows[i]) <= RowDate(appts, rows[j])
                   /\ RowDate(appts, rows[i]) = RowDate(appts, rows[j])
                          => IndexOf(appts, rows[i]) < IndexOf(appts, rows[j])

\* C4: after every book, edit and delete the list box shows exactly the
\* appointments not before today, by date ascending, equal dates in booking
\* order.
C4_ListUpcomingSorted ==
    [][(BookDone \/ EditSaved \/ DeleteDone) =>
          ListsUpcoming(appointments_listbox', appointments', today')]_vars

\* C4 witness: after an edit, the list box shows the two appointments in the
\* order of their days, which is not the order they are stored in.
C4_Witness ==
    /\ messagebox = Msg("info", "Appointment updated successfully!")
    /\ Len(appointments) = 2
    /\ appointments_listbox = <<appointments[2].oid, appointments[1].oid>>

-----------------------------------------------------------------------------
(* Properties of the bill log and the bill files.                          *)

\* A step of Search that read the log and matched its records.
SearchDone == messagebox'.text \in {"Found matches.", "No matches found."}

\* A step of the Search button, whatever it came to.
SearchStep ==
    messagebox'.text \in {"Found matches.", "No matches found.", "Failed to search bills",
                          "No bill records exist yet.",
                          "Please enter a valid search term (name or phone)."}

\* The query of the last search is, in any letter case, part of the text
\* appended for bill b.
QueryInBill(result, bill) ==
    /\ bill.logged
    /\ IsSubstring(LowerText(StripText(result.query)), LowerText(bill.text))

\* A match of the last search is a record of bill b: a part of the text
\* appended for that bill, with the query in it.
MatchOfBill(result, bill) ==
    \E m \in 1..Len(result.matching) :
        /\ IsSubstring(result.matching[m], bill.text)
        /\ IsSubstring(LowerText(StripText(result.query)), LowerText(result.matching[m]))

\* C7: a search for a text that is, in any letter case, part of a bill
\* appended to the log has a record of that bill among its matches.
C7_SearchFindsBill ==
    [][SearchDone =>
          \A b \in 1..Len(generated) :
              QueryInBill(search_results', generated[b])
                  => MatchOfBill(search_results', generated[b])]_vars

\* C9: no two bills were written to the same individual file.
C9_UniqueFileNames ==
    \A i, j \in 1..Len(generated) : i < j => generated[i].path # generated[j].path

\* C10: the log before every step is a prefix of the log after it, the log
\* never ceases to exist, and a search leaves it as it was.
C10_LogAppendOnly ==
    [][/\ IsPrefix(bills_log.text, bills_log'.text)
       /\ bills_log.exists => bills_log'.exists
       /\ SearchStep => bills_log' = bills_log]_vars

\* C10 witness: two different bills in the log, one after the other, and a
\* search that found matches in it.
C10_Witness ==
    /\ messagebox.text = "Found matches."
    /\ Len(generated) = 2
    /\ generated[1].text # generated[2].text
    /\ bills_log.text = generated[1].text \o generated[2].text

-----------------------------------------------------------------------------
(* Properties of the appointment file.                                     *)

\* A dict of the file and an appointment carry the same five fields: the
\* same texts, and the same treatments in the same order, a price being the
\* same when it is the same number.
SameFields(d, appt) ==
    /\ d.patient_name = appt.patient_name
    /\ d.phone = appt.phone
    /\ d.date = appt.date
    /\ d.time_slot = appt.time_slot
    /\ Len(d.treatments) = Len(appt.treatments)
    /\ \A i \in 1..Len(appt.treatments) :
          /\ d.treatments[i].name = appt.treatments[i].name
          /\ d.treatments[i].price.v = appt.treatments[i].price.v

\* The file holds the collection: as many entries, in the same order.
StoreHolds(file, appts) ==
    /\ file.exists
    /\ file.valid
    /\ Len(file.data) = Len(appts)
    /\ \A i \in 1..Len(appts) : SameFields(file.data[i], appts[i])

\* A step of book, edit or delete that changed the collection in memory.
Mutation == BookDone \/ EditSaved \/ DeleteDone

\* C3: after every book, edit and delete the file holds the collection that
\* is in memory, the same entries in the same order, also when the write
\* failed.
C3_StoreAlwaysHoldsMemory ==
    [][Mutation => StoreHolds(store', appointments')]_vars

\* C8: the collection, written to the file and read back, has the same
\* length and order and the same fields in every entry.
C8_RoundTrip ==
    LET back == load_appointments(JsonFile(Dump(appointments)))
    IN  /\ Len(back) = Len(appointments)
        /\ \A i \in 1..Len(appointments) :
              /\ SameFields(back[i], appointments[i])
              /\ SameFields(Dump(appointments)[i], appointments[i])

\* C8 witness: after a restart, the collection is the one read back from the
\* file: two appointments, booked in the order D2, D1, their prices as the
\* file holds them.
C8_Witness ==
    /\ messagebox = NoMsg
    /\ treatments = <<>>
    /\ Len(appointments) = 2
    /\ appointments[1].date = "D2"
    /\ appointments[2].date = "D1"
    /\ appointments[1].patient_name = "Ali"
    /\ appointments[1].treatments = <<Treatment("Cleaning", FloatPrice(DefaultPrice))>>
    /\ store = JsonFile(Dump(appointments))

-----------------------------------------------------------------------------
(* Properties of saving a bill on a disk that can fail.                     *)

\* A step of Generate Bill that got as far as saving the bill.
SaveBillStep ==
    \/ messagebox' = Msg("info", "Bill generated and saved!")
    \/ messagebox' = Raised("OSError")

\* An I/O step of that save failed: the folder could not be made, or a write
\* was refused and printed.
SaveBillFailed ==
    \/ messagebox' = Raised("OSError")
    \/ \E i \in 1..Len(console') :
           console'[i] \in {"Error saving combined bill file",
                            "Error saving individual TXT file"}

\* C11: when an I/O step of saving a bill fails, no error leaves the save
\* call and the caller is told of the failure, so Generate Bill neither ends
\* in an exception nor announces that the bill was saved.
C11_SaveFailureReported ==
    [][SaveBillStep /\ SaveBillFailed
          => /\ messagebox' # Raised("OSError")
             /\ messagebox' # Msg("info", "Bill generated and saved!")]_vars

-----------------------------------------------------------------------------
(* Properties of the appointment file on a disk that can fail.              *)

\* A step of book, edit or delete: a handler that ended with a message box
\* and left the collection changed.
ApptChanged ==
    /\ messagebox' # NoMsg
    /\ appointments' # appointments

\* The write of the appointment file failed in this step.
StoreWriteFailed ==
    \E i \in 1..Len(console') : console'[i] = "Error saving appointments"

\* The boxes with which book, edit and delete announce plain success.
PlainSuccess ==
    { Msg("info", "Appointment booked successfully!"),
      Msg("info", "Appointment updated successfully!"),
      Msg("info", "Appointment deleted successfully!") }

\* C12: when the write of the appointment file fails during book, edit or
\* delete, the change stays in memory and the user is told that the file may
\* be stale: the handler does not announce plain success.
C12_StaleStoreReported ==
    [][ApptChanged /\ StoreWriteFailed => messagebox' \notin PlainSuccess]_vars

-----------------------------------------------------------------------------
(* Properties of loading a damaged appointment file.                       *)

\* The file exists and is not what save_appointments writes: it is not
\* JSON, or an entry of it has a date that is not text.
Malformed(file) ==
    /\ file.exists
    /\ \/ ~file.valid
       \/ \E i \in 1..Len(file.data) : RaisesTypeError(file.data[i].date)

\* C13: when the appointment file exists but is malformed or unreadable, the
\* start of the program loads an empty collection, prints the error, and
\* does not end with an exception.
C13_MalformedStoreLoadsEmpty ==
    [][restart /\ Malformed(store)
          => /\ appointments' = <<>>
             /\ messagebox' # Raised("TypeError")
             /\ \E i \in 1..Len(console') : console'[i] = "Error loading appointments"]_vars

-----------------------------------------------------------------------------
(* Properties of Book Appointment.                                         *)

\* The fields of a form other than its date pass the checks.
OtherwiseValid(form) ==
    /\ Strip(form.name) # ""
    /\ Strip(form.phone) # ""
    /\ ParseTime(Strip(form.time))

\* The collection got one more entry, at its end, made of the form.
AppendedLast(form) ==
    /\ Len(appointments') = Len(appointments) + 1
    /\ SubSeq(appointments', 1, Len(appointments)) = appointments
    /\ LET last == appointments'[Len(appointments')]
       IN  /\ last.patient_name = Strip(form.name)
           /\ last.date = Strip(form.date)
           /\ \E i \in 1..Len(appointments_listbox') : appointments_listbox'[i] = last.oid

\* C14: Book Appointment with a date before today ends in a warning and
\* leaves the collection and the file as they were; with today's date, the
\* other fields valid and a treatment selected, it is accepted: the
\* appointment is appended as the last entry, is a row of the list of
\* upcoming appointments, and the file holds the whole collection.
C14_BookPastRefusedTodayAccepted ==
    [][\A form \in BookForms :
          book_appointment({form}, FALSE) =>
              LET day == ParseDate(Strip(form.date))
              IN  /\ (day # -1 /\ day < today)
                        => /\ messagebox'.kind = "warning"
                           /\ appointments' = appointments
                           /\ store' = store
                  /\ (/\ day = today
                      /\ OtherwiseValid(form)
                      /\ messagebox' # Msg("warning", "Please select at least one treatment."))
                        => /\ messagebox' = Msg("info", "Appointment booked successfully!")
                           /\ AppendedLast(form)
                           /\ StoreHolds(store', appointments')]_vars

\* C14 witness: an appointment dated today has just been booked on the
\* second day, after one booked the day before; it is the last entry and a
\* row of the list.
C14_Witness ==
    /\ messagebox = Msg("info", "Appointment booked successfully!")
    /\ today = 2
    /\ Len(appointments) = 2
    /\ appointments[1].date = "D1"
    /\ ParseDate(appointments[2].date) = today
    /\ \E i \in 1..Len(appointments_listbox) : appointments_listbox[i] = appointments[2].oid
    /\ StoreHolds(store, appointments)

-----------------------------------------------------------------------------
(* Properties of Save Changes.                                             *)

\* The four fields of a form pass the checks of book_appointment.
FieldsValid(form, day) ==
    /\ OtherwiseValid(form)
    /\ ParseDate(Strip(form.date)) # -1
    /\ ParseDate(Strip(form.date)) >= day

\* Entry i, and no other, got the fields of the form: the collection keeps
\* its length, its order and every other entry.
ReplacedAt(i, form) ==
    /\ appointments'[i].oid = appointments[i].oid
    /\ appointments'[i].patient_name = Strip(form.name)
    /\ appointments'[i].phone = Strip(form.phone)
    /\ appointments'[i].date = Strip(form.date)
    /\ appointments'[i].time_slot = Strip(form.time)
    /\ appointments'[i].treatments # <<>>
    /\ \A j \in 1..Len(appointments) : j # i => appointments'[j] = appointments[j]

\* C15: Save Changes makes the checks of Book Appointment.  When one fails,
\* it ends in a warning and the collection and the file are as they were;
\* when all pass, exactly one entry has its five fields replaced in place,
\* the collection keeps its length and order, and the file is rewritten.
C15_EditValidatesAndReplaces ==
    [][\A form \in Forms :
          save_edit({form}, FALSE) =>
              IF \/ ~FieldsValid(form, today)
                 \/ messagebox' = Msg("warning", "Please select at least one treatment.")
              THEN /\ messagebox'.kind = "warning"
                   /\ appointments' = appointments
                   /\ store' = store
              ELSE /\ Len(appointments') = Len(appointments)
                   /\ \E i \in 1..Len(appointments) : ReplacedAt(i, form)
                   /\ StoreHolds(store', appointments')]_vars

-----------------------------------------------------------------------------
(* Properties of totals.                                                   *)

\* The patients of the bills generated so far.
Patients == {generated[i].patient : i \in 1..Len(generated)}

\* A discount d with 0 <= d <= 100.
InRange(d) == ~d.nan /\ InHundredths(d) >= 0 /\ InHundredths(d) <= 10000

\* total * (1 - discount / 100) rounded to two decimal places, in
\* hundredths, for a total in hundredths and a discount in halves of a
\* percent: the nearest hundredth, and at a tie the one above or the even
\* one, as the rule of rounding may be.
RoundedTo2(total, discount) ==
    LET n == total * (200 - discount)
        q == n \div 200
        r == n % 200
    IN  IF r < 100 THEN {q}
        ELSE IF r > 100 THEN {q + 1}
        ELSE {q + 1, IF q % 2 = 0 THEN q ELSE q + 1}

\* C16: for every discount d in [0,100] and every selection whose raw total
\* T is at least 0, the total of a VIP patient is T * (1 - d/100) rounded to
\* two decimal places; and for the same T a larger d never gives a larger
\* total.
C16_DiscountedTotalRounded ==
    /\ \A p \in Patients :
          (p.vip /\ InRange(p.discount) /\ ~SumCosts(p.treatments).nan
                 /\ InHundredths(SumCosts(p.treatments)) >= 0)
             => /\ ~calculate_total(p).nan
                /\ InHundredths(calculate_total(p))
                      \in RoundedTo2(InHundredths(SumCosts(p.treatments)),
                                     InHalves(p.discount))
    /\ \A p1, p2 \in Patients :
          (/\ p1.vip /\ p2.vip
           /\ InRange(p1.discount) /\ InRange(p2.discount)
           /\ ~SumCosts(p1.treatments).nan
           /\ SumCosts(p1.treatments) = SumCosts(p2.treatments)
           /\ InHundredths(p1.discount) <= InHundredths(p2.discount))
             => InHundredths(calculate_total(p1)) >= InHundredths(calculate_total(p2))

\* C17: a VIP patient exists only with a discount in [0,100]: a discount
\* below 0 or above 100 is refused when the patient is to be made, so no VIP
\* patient with a discount outside the range exists or computes a total.
C17_DiscountInRange ==
    \A p \in Patients : p.vip => InRange(p.discount)

\* C18: a treatment is added to a patient's selections, as their last
\* element, only when its name is not empty and its price is a finite number
\* that is not negative; otherwise the addition is refused and the list is
\* as it was.  So every selection of every patient has such a name and
\* such a price.
C18_SelectionsValid ==
    \A p \in Patients :
        \A i \in 1..Len(p.treatments) :
            /\ p.treatments[i].name # ""
            /\ ~p.treatments[i].price.nan
            /\ InHundredths(p.treatments[i].price) >= 0

-----------------------------------------------------------------------------
(* Properties of the text of a bill.                                       *)

\* The lines of a text: what stands between its newlines.
LinesOf(text) ==
    LET idx == [i \in 1..Len(text) |-> i]
        nl  == SelectSeq(idx, LAMBDA i : text[i] = NL) \o <<Len(text) + 1>>
    IN  [k \in 1..Len(nl) |->
            SubSeq(text, IF k = 1 THEN 1 ELSE nl[k - 1] + 1, nl[k] - 1)]

\* The lines that are not blank.
NonBlank(lines) == SelectSeq(lines, LAMBDA l : l # <<>>)

\* A line of "=" alone, at least n of them.
IsSeparator(line, n) == Len(line) >= n /\ \A i \in 1..Len(line) : line[i] = EQ

\* The lines are those of the bill of the patient, in their order: the
\* timestamp, the title, the clinic, the name, the phone, a separator, the
\* header, a line for each selection in the order of the selections or one
\* line saying there is none, a separator, the totals, the closing
\* separator.
BillShape(lines, patient) ==
    LET n == Len(patient.treatments)
        items == IF n = 0 THEN 1 ELSE n
        totals == IF patient.vip THEN 3 ELSE 1
        t == 8 + items      \* the line of the second separator
    IN  /\ Len(lines) = 7 + items + 1 + totals + 1
        /\ Len(lines[1]) = 2 /\ lines[1][1] = "Date & Time: "
        /\ lines[2] = Repeat(EQ, 5)
                        \o <<SP, IF patient.vip THEN "VIP BILL RECEIPT" ELSE "BILL RECEIPT", SP>>
                        \o Repeat(EQ, 5)
        /\ lines[3] = <<"Clinic: ", clinic_name>>
        /\ lines[4] = <<IF patient.vip THEN "VIP Patient Name: " ELSE "Patient Name: ",
                        patient.name>>
        /\ lines[5] = <<"Phone: ", patient.phone>>
        /\ lines[6] = Dashes
        /\ lines[7] = <<"Treatments:">>
        /\ IF n = 0 THEN lines[8] = <<"- (No treatments selected)">>
           ELSE \A i \in 1..n :
                   /\ Len(lines[7 + i]) = 4
                   /\ lines[7 + i][1] = "- "
                   /\ lines[7 + i][2] = patient.treatments[i].name
                   /\ lines[7 + i][3] = ": Rs. "
                   /\ lines[7 + i][4] = FormatPrice(patient.treatments[i].price)
        /\ lines[t] = Dashes
        /\ IF patient.vip
           THEN /\ Len(lines[t + 1]) = 2 /\ lines[t + 1][1] = "Original Total: Rs. "
                /\ lines[t + 2] = <<"Discount: ", FormatPrice(patient.discount), "%">>
                /\ Len(lines[t + 3]) = 2
                /\ lines[t + 3][1] = "Total Amount after Discount: Rs. "
           ELSE /\ Len(lines[t + 1]) = 2 /\ lines[t + 1][1] = "Total Amount: Rs. "
        /\ IsSeparator(lines[t + totals + 1], 5)

\* The bill of a patient as generate_bill renders it at second t.
Rendered(patient, t) ==
    <<"Date & Time: ", now_str(t), NL>>
        \o _build_bill_text(patient, IF patient.vip THEN "VIP BILL RECEIPT" ELSE "BILL RECEIPT")

\* C19: for every patient and every list of selections, the rendered bill is
\* the timestamp line followed, in this order, by the title line, the clinic
\* line, the name line, the phone line, a separator, the Treatments header,
\* one line for each selection in the order of the selections (exactly one
\* line "(No treatments selected)" when there is none), a separator, the
\* total line (for a VIP patient the original total, the discount and the
\* discounted total), and the closing separator.  Every generated bill has
\* this shape, and so has the bill of its patient with no selection.
C19_BillStructure ==
    \A i \in 1..Len(generated) :
        LET p == generated[i].patient
            none == [p EXCEPT !.treatments = <<>>]
        IN  /\ BillShape(NonBlank(LinesOf(generated[i].text)), p)
            /\ \E t \in 0..now : generated[i].text = Rendered(p, t) \o <<NL, NL>>
            /\ BillShape(NonBlank(LinesOf(Rendered(none, now))), none)

\* C19 witness: a VIP bill of two selections, in the order of the list box,
\* after a standard bill of one.
C19_Witness ==
    /\ Len(generated) = 2
    /\ ~generated[1].patient.vip
    /\ Len(generated[1].patient.treatments) = 1
    /\ generated[2].patient.vip
    /\ Len(generated[2].patient.treatments) = 2
    /\ generated[2].patient.treatments[1].name = "Cleaning"
    /\ generated[2].patient.treatments[2].name = "Filling"
    /\ Len(NonBlank(LinesOf(generated[2].text))) = 14

RECURSIVE SumOfPrices(_)
\* The exact sum of the prices of the selections, in hundredths.
SumOfPrices(treats) ==
    IF treats = <<>> THEN 0
    ELSE InHundredths(Head(treats).price) + SumOfPrices(Tail(treats))

\* C20: the total of a standard patient is the exact sum of the prices of
\* the selections, and the bill shows that value: with Cleaning at 7000 in
\* the catalog, however it was entered, a standard bill of Cleaning alone has
\* the total 7000 and the lines "- Cleaning: Rs. 7000" and
\* "Total Amount: Rs. 7000".
C20_StandardBillShowsSum ==
    \A i \in 1..Len(generated) :
        LET p == generated[i].patient
            lines == LinesOf(generated[i].text)
        IN  ~p.vip =>
              /\ InHundredths(calculate_total(p)) = SumOfPrices(p.treatments)
              /\ (/\ Len(p.treatments) = 1
                  /\ p.treatments[1].name = "Cleaning"
                  /\ InHundredths(p.treatments[1].price) = 700000)
                    => /\ InHundredths(calculate_total(p)) = 700000
                       /\ \E k \in 1..Len(lines) :
                             lines[k] = <<"- ", "Cleaning", ": Rs. ", "7000">>
                       /\ \E k \in 1..Len(lines) :
                             lines[k] = <<"Total Amount: Rs. ", "7000">>

-----------------------------------------------------------------------------
(* The Search tab over a log that bills of one treatment are appended to   *)
(* on a disk that can fail: searches with nothing typed, with blanks, with *)
(* the hint of the entry, with a name no bill has, with a name of a bill,  *)
(* and with "=".                                                           *)

BlankQueries == { <<>>, <<SP>>, <<SP, NL, SP>> }

ValidQueries == { <<"Zed">>, <<SP, "ALI KHAN">>, <<EQ>> }

SearchQueries ==
    BlankQueries \cup ValidQueries \cup { <<"Enter name or phone (partial match)...">> }

\* The catalog holds one treatment, priced in the Edit Prices window.
InitSearch ==
    /\ InitTotals
    /\ Len(treatments) = 1
    /\ ~treatments[1].price.nan

NextSearch ==
    \/ generate_bill(LogForms, TRUE)
    \/ search_bills(SearchQueries, TRUE)

SpecSearch == InitSearch /\ [][NextSearch]_vars

-----------------------------------------------------------------------------
(* Properties of the Search tab.                                           *)

SearchWarning == Msg("warning", "Please enter a valid search term (name or phone).")

\* C21: a search with nothing or only blanks typed ends with the warning of
\* the entry and nothing else: whether the log exists or not and whether it
\* can be read or not, the results box and the log stay as they were, and no
\* box of a search that read the log is shown.
C21_BlankQueryRefused ==
    [][\A typed \in BlankQueries :
          search_bills({typed}, TRUE)
              => /\ messagebox' = SearchWarning
                 /\ search_results' = search_results
                 /\ bills_log' = bills_log]_vars

\* C21 witness: the warning is up over a log that exists, and the results
\* box still shows the matches of the search before it.
C21_Witness ==
    /\ messagebox = SearchWarning
    /\ bills_log.exists
    /\ search_results.status = "Found"
    /\ search_results.query \notin BlankQueries

NoRecords == Msg("info", "No bill records exist yet.")

ZeroMatches == Msg("info", "No matches found.")

SearchFailed == Msg("error", "Failed to search bills")

\* A bill has been appended to the log.
SomeBillLogged == \E b \in 1..Len(generated) : generated[b].logged

\* C22: a search with a valid query over a log that does not exist ends with
\* the "no records" box and status; over a log that exists and holds no
\* match it ends with the "no matches" box and status, which are other
\* texts; and once a bill has been appended no step ends with the "no
\* records" box, and no search that got past the check of its query leaves
\* the "no records" status in the results box.
C22_NoRecordsDistinct ==
    [][/\ \A typed \in ValidQueries :
              ~bills_log.exists /\ search_bills({typed}, FALSE)
                  => /\ messagebox' = NoRecords
                     /\ search_results'.status = "No bill records found."
       /\ (/\ bills_log.exists
           /\ SearchStep
           /\ messagebox' \notin {SearchWarning, SearchFailed}
           /\ search_results'.matching = <<>>)
              => /\ messagebox' = ZeroMatches
                 /\ search_results'.status = "No matching records found."
                 /\ messagebox' # NoRecords
       /\ SomeBillLogged
              => /\ messagebox' # NoRecords
                 /\ SearchStep /\ messagebox' # SearchWarning
                        => search_results'.status # "No bill records found."]_vars

\* C22 witness: the first bill failed to reach the log, the second was
\* appended, and a search over that log ended with "no matches".
C22_Witness ==
    /\ Len(generated) = 2
    /\ ~generated[1].logged
    /\ generated[2].logged
    /\ messagebox = ZeroMatches
    /\ search_results.status = "No matching records found."

\* q stands in t right after offset p.
OccursAt(q, t, p) == p + Len(q) <= Len(t) /\ \A k \in 1..Len(q) : t[p + k] = q[k]

\* The first offset from p on where q stands in t, or -1.
FirstAt(q, t, p) ==
    IF \E i \in p..(Len(t) - Len(q)) : OccursAt(q, t, i)
    THEN CHOOSE i \in p..(Len(t) - Len(q)) :
            OccursAt(q, t, i) /\ \A j \in p..(i - 1) : ~OccursAt(q, t, j)
    ELSE -1

RECURSIVE InFileOrder(_, _, _, _)
\* The records from the i-th on stand in the text one after the other, the
\* i-th at offset at or found nowhere (at = -1).
InFileOrder(records, t, i, at) ==
    /\ at >= 0
    /\ \/ i = Len(records)
       \/ InFileOrder(records, t, i + 1,
                      FirstAt(records[i + 1], t, at + Len(records[i])))

\* C23: the matches of a search that found some are records holding the
\* query, they stand in the log one after the other in the order of the
\* list, the box shows the first 10 of them, or all when there are fewer,
\* and with m > 10 matches the count of the remaining ones is m - 10.
C23_MatchesInFileOrderCapped ==
    [][messagebox'.text = "Found matches."
          => LET result == search_results'
             IN  /\ result.matching # <<>>
                 /\ \A m \in 1..Len(result.matching) :
                        IsSubstring(LowerText(StripText(result.query)),
                                    LowerText(result.matching[m]))
                 /\ InFileOrder(result.matching, bills_log.text, 1,
                                FirstAt(result.matching[1], bills_log.text, 0))
                 /\ Len(result.shown) <= 10
                 /\ Len(result.shown) = Len(result.matching) \/ Len(result.shown) = 10
                 /\ \A m \in 1..Len(result.shown) : result.shown[m] = result.matching[m]
                 /\ Len(result.matching) > 10 => result.more = Len(result.matching) - 10
                 /\ Len(result.matching) <= 10 => result.more = 0]_vars

\* C23 witness: a search found more than 10 matches, not all alike, and
\* the box shows 10 of them and counts the rest.
C23_Witness ==
    /\ messagebox.text = "Found matches."
    /\ Len(search_results.matching) > 10
    /\ Len(search_results.shown) = 10
    /\ search_results.more = Len(search_results.matching) - 10
    /\ \E m \in 1..Len(search_results.matching) :
           search_results.matching[m] # search_results.matching[1]

-----------------------------------------------------------------------------
(* Properties of the catalog's ids.                                        *)

\* A step of Save in Edit Treatments or Edit Prices that replaced the
\* catalog.
CatalogEdited == messagebox'.text \in {"Treatments updated!", "Prices updated!"}

\* C24: after every Save that replaced the catalog, the ids of the catalog
\* are 1..N, N being the number of its treatments.
C24_IdsDense ==
    [][CatalogEdited
          => DOMAIN treatments' = 1..Cardinality(DOMAIN treatments')]_vars

-----------------------------------------------------------------------------
(* The two windows of the catalog together: neither is modal, so each can  *)
(* be opened and saved while the other is open.                            *)

CatalogNames ==
    { <<"Cleaning">>, <<"Filling">>, <<"Cleaning", "Filling">>, <<"">> }

CatalogPrices ==
    { << Line("Cleaning", TRUE, "7000") >>,
      << Line("Cleaning", TRUE, "500"), Line("Filling", TRUE, "500") >> }

NextCatalog ==
    \/ edit_treatments
    \/ \E lines \in CatalogNames : save_treatments(lines)
    \/ edit_prices
    \/ type_prices(CatalogPrices)
    \/ save_prices
    \/ close_price_win

SpecCatalog == Init /\ [][NextCatalog]_vars

\* The prices the catalog has for a name.
PricesOf(cat, name) == {cat[k].price : k \in {j \in DOMAIN cat : cat[j].name = name}}

\* C25: after a Save of Edit Treatments that replaced the catalog, every
\* treatment has the price the catalog before the Save had for its name, or
\* 1000 when that catalog had no such name; a Save refused with the
\* warning leaves the catalog as it was.
C25_NamesKeepPrices ==
    [][/\ messagebox'.text = "Treatments updated!"
          => \A k \in DOMAIN treatments' :
                IF PricesOf(treatments, treatments'[k].name) # {}
                THEN treatments'[k].price \in PricesOf(treatments, treatments'[k].name)
                ELSE treatments'[k].price = IntPrice(DefaultPrice)
       /\ messagebox'.text \in {"At least one treatment is required.",
                                "At least one valid treatment is required."}
          => treatments' = treatments]_vars

-----------------------------------------------------------------------------
(* Properties of a failed write of the appointment file.                   *)

\* C26: a write of the file that failed leaves the file as it was, and
\* after every step the file is the one it was before or holds the whole
\* collection of after the step.
C26_FailedWriteKeepsFile ==
    [][/\ console' = <<"Error saving appointments">> => store' = store
       /\ store' = store \/ store' = JsonFile(Dump(appointments'))]_vars

-----------------------------------------------------------------------------
(* Appointments and bills made between edits of the catalog.               *)

FrameForms == { Form("Ali", "0300", "D1", "09:00") }

FramePrices == { << Line("Cleaning", TRUE, "7000") >> }

NextFrame ==
    \/ edit_treatments
    \/ \E lines \in ClinicTreatments : save_treatments(lines)
    \/ edit_prices
    \/ type_prices(FramePrices)
    \/ save_prices
    \/ book_appointment(FrameForms, FALSE)
    \/ generate_bill(PricedForms, FALSE)

SpecFrame == Init /\ [][NextFrame]_vars

\* C27: a Save that replaced the catalog leaves every appointment in
\* memory, the appointment file, the bill log and the bill files as they
\* were.
C27_CatalogEditKeepsSelections ==
    [][CatalogEdited
          => /\ appointments' = appointments
             /\ store' = store
             /\ bills_log' = bills_log
             /\ bill_files' = bill_files]_vars

\* C27 witness: the prices were just replaced, and an appointment in memory
\* and in the file, and a bill in the log, carry a treatment at a price the
\* catalog no longer has for its name.
C27_Witness ==
    /\ messagebox.text = "Prices updated!"
    /\ Len(appointments) > 0
    /\ StoreHolds(store, appointments)
    /\ \E t \in 1..Len(appointments[1].treatments) :
           LET was == appointments[1].treatments[t]
           IN  /\ PricesOf(treatments, was.name) # {}
               /\ was.price \notin PricesOf(treatments, was.name)
    /\ Len(generated) > 0
    /\ generated[1].logged
    /\ IsPrefix(generated[1].text, bills_log.text)
    /\ \E t \in 1..Len(generated[1].patient.treatments) :
           LET was == generated[1].patient.treatments[t]
           IN  /\ PricesOf(treatments, was.name) # {}
               /\ was.price \notin PricesOf(treatments, was.name)

-----------------------------------------------------------------------------
(* The edit window of an appointment, open while the catalog is replaced:  *)
(* the window is not modal and keeps the keys it listed when it opened.    *)

KeyNames == { <<"Cleaning", "Filling">>, <<"Filling">> }

KeyForms == { Form("Ali", "0300", "D1", "09:00") }

NextKeys ==
    \/ edit_treatments
    \/ \E lines \in KeyNames : save_treatments(lines)
    \/ book_appointment(KeyForms, FALSE)
    \/ select_row
    \/ edit_appointment
    \/ save_edit(KeyForms, FALSE)
    \/ close_edit_win

SpecKeys == Init /\ [][NextKeys]_vars

\* C28: no handler ends with a KeyError of a catalog lookup, and after every
\* step the keys behind the rows of the two treatment list boxes are the
\* keys of the catalog.
C28_SelectionKeysExist ==
    [][/\ messagebox' # Raised("KeyError")
       /\ treatment_keys' = CatalogKeys(treatments')
       /\ appt_treatment_keys' = CatalogKeys(treatments')]_vars

-----------------------------------------------------------------------------
(* The edit window open while appointments are booked and deleted.  Every  *)
(* appointment is of the same day, so the rows of the list box are in      *)
(* storage order and the window opens on the appointment its row shows.    *)

DialogForms == { Form("Sara", "0300", "D1", "14:30") }

NextDialog ==
    \/ edit_treatments
    \/ \E lines \in ClinicTreatments : save_treatments(lines)
    \/ book_appointment(KeyForms, FALSE)
    \/ select_row
    \/ edit_appointment
    \/ save_edit(DialogForms, FALSE)
    \/ delete_appointment(FALSE)

SpecDialog == Init /\ [][NextDialog]_vars

\* C29: no Save Changes ends with an IndexError, and one that goes through
\* changes the appointment the window was opened on, which is still in the
\* collection, and no other.
C29_SaveEditsOpenedAppointment ==
    [][/\ messagebox' # Raised("IndexError")
       /\ EditSaved
            => /\ Len(appointments') = Len(appointments)
               /\ \E i \in 1..Len(appointments) : appointments[i].oid = edit_win.shown
               /\ \A i \in 1..Len(appointments) :
                      appointments[i].oid # edit_win.shown
                          => appointments'[i] = appointments[i]]_vars

-----------------------------------------------------------------------------
(* Properties of past appointments.                                        *)

\* The entries of the collection dated before the day, in storage order.
PastEntries(appts, day) ==
    SelectSeq(appts, LAMBDA a : ParseDate(a.date) # -1 /\ ParseDate(a.date) < day)

\* The entries of the collection that are one of the given objects.
EntriesOf(appts, oids) == SelectSeq(appts, LAMBDA a : a.oid \in oids)

\* C30: the entries dated before today are, after every step, still in the
\* collection, with every field as it was and in the same order.
C30_PastEntriesKept ==
    [][LET past == PastEntries(appointments, today)
       IN  EntriesOf(appointments', {past[i].oid : i \in 1..Len(past)}) = past]_vars

====
